---------------------------- MODULE Spec2Model ----------------------------
(***************************************************************************)
(* gitu: the interaction engine of src/main.rs.                            *)
(*                                                                         *)
(* The state is main.rs's State (quit, screens, terminal) together with    *)
(* the position of run_app's loop.  One action per step of that loop:      *)
(*   Draw          lines 77-80  (draw, handle_command_output)              *)
(*   HandleEvents  line 82      (handle_events: the whole of it, or, for   *)
(*                 a foreground operation, up to where it blocks in        *)
(*                 cmd.wait(), line 262)                                   *)
(*   WaitReturns   line 262     (the foreground child has exited: the rest *)
(*                 of handle_events)                                       *)
(*   Clamp         lines 84-86  (clamp_cursor)                             *)
(*   LoopExit      line 76/89   (the loop condition fails)                 *)
(*   ChildExit     the child of a background command exits (environment)   *)
(*                                                                         *)
(* Screen, keybinds and git are modules of the repository whose code is    *)
(* not part of the sources at hand; their operations are modelled from     *)
(* the design document and are marked so in the model map.                 *)
(***************************************************************************)
EXTENDS Integers, Sequences, FiniteSets, TLC

VARIABLES
    screens,     \* State.screens: the stack, top = last
    quit,        \* State.quit
    term,        \* State.terminal: [hidden, clean]
    pc,          \* position of run_app: "loop" | "events" | "wait" | "clamp" |
                 \* "exited" | "error" | "panic"; at "wait" handle_events is
                 \* blocked in cmd.wait() and the foreground child has the terminal
    panic,       \* the panic message when pc = "panic", "" otherwise
    ev,          \* the terminal event handle_events handled last (NoEvent outside)
    fx,          \* the calls made by the step of the loop just taken (the draw
                 \* and poll, or the handling of ev so far), in order
    ops,         \* the number of events acted on so far
    pushedOnto   \* the stack ShowOrEdit on a Ref pushed a show screen onto, kept
                 \* until the operation that follows the push is done; <<>> otherwise

vars == <<screens, quit, term, pc, panic, ev, fx, ops, pushedOnto>>

----------------------------------------------------------------------------
(* Bounds *)

\* most answers of the terminal a run reads, a timeout of the poll not counted
MaxOps == 3

\* most visible items a collector returns
MaxItems == 2

\* the numbers of visible items a collector returns in the runs explored:
\* none, one, the most
ItemCounts == {0, 1, MaxItems}

----------------------------------------------------------------------------
(* Small helpers *)

Min(a, b) == IF a < b THEN a ELSE b

Max(a, b) == IF a > b THEN a ELSE b

Last(s) == s[Len(s)]

Front(s) == SubSeq(s, 1, Len(s) - 1)

SetTop(ss, s) == [ss EXCEPT ![Len(ss)] = s]

----------------------------------------------------------------------------
(* Data *)

\* items::Actionable, and "none" for an Item whose act is None
Actionable == {"Ref", "Untracked", "Delta", "Hunk", "DiffLine"}

\* keybinds::TargetOp
TargetOp == {"ShowOrEdit", "Stage", "Unstage"}

\* keybinds::Op (Op::Target(t) is written as t)
Op == {"Quit", "Refresh", "ToggleSection", "SelectPrevious", "SelectNext",
       "HalfPageUp", "HalfPageDown", "Log", "Fetch", "Commit", "Push", "Pull"}
      \cup TargetOp

\* key chords: one per bound operation, and one with no binding
UnboundKey == "unbound"

\* keybinds::action_of_key_event: Some(op) for a bound chord, None otherwise
NoOp == "None"

action_of_key_event(key) == IF key \in Op THEN key ELSE NoOp

\* the screen kinds of create_initial_state
Kinds == {"status", "log", "show"}

\* terminal sizes (columns, rows); the terminal starts with InitialSize
InitialSize == <<80, 24>>

Sizes == {InitialSize, <<40, 12>>}

\* EDITOR: unset, a terminal editor, another editor
NoEditor == "<unset>"

Editors == {"vim", "code"}

\* hunk.new_start of the selected hunk, and the path of the selected file
NewStarts == {10}

Paths == {"a.txt"}

ExitStatus == {0, 1}

----------------------------------------------------------------------------
(* screen::Screen *)

NoCmd == "none"

\* Screen.command: None, or an IssuedCommand whose child runs, has exited
\* unobserved, or was observed finished by handle_command_output
CmdStates == {NoCmd, "running", "exited", "finished"}

\* screen::{status,log,show}::create: the collector runs once, the cursor is 0
create(kind, size, n) ==
    [kind |-> kind, size |-> size, n |-> n, cursor |-> 0, cmd |-> NoCmd]

\* Screen::refresh_items: the collector's result replaces the items
refresh_items(s, n) == [s EXCEPT !.n = n]

\* Screen::clamp_cursor
clamp_cursor(s) == [s EXCEPT !.cursor = IF s.n = 0 THEN 0 ELSE Min(@, s.n - 1)]

\* Screen::clear_finished_command
clear_finished_command(s) ==
    IF s.cmd = "finished" THEN [s EXCEPT !.cmd = NoCmd] ELSE s

\* Screen::handle_command_output: the first poll after the child's exit marks
\* the command finished and reconciles the screen with a refresh
handle_command_output(s, n) ==
    IF s.cmd = "exited" THEN refresh_items([s EXCEPT !.cmd = "finished"], n) ELSE s

\* whether Screen::issue_command spawns: not while a command is pending
issue_accepts(s) == s.cmd \notin {"running", "exited"}

\* Screen::issue_command, the spawn having succeeded
issue_command(s) == IF issue_accepts(s) THEN [s EXCEPT !.cmd = "running"] ELSE s

HalfPage(s) == s.size[2] \div 2

select_previous(s) == [s EXCEPT !.cursor = Max(@ - 1, 0)]

select_next(s) == [s EXCEPT !.cursor = @ + 1]

scroll_half_page_up(s) == [s EXCEPT !.cursor = Max(@ - HalfPage(s), 0)]

scroll_half_page_down(s) == [s EXCEPT !.cursor = @ + HalfPage(s)]

\* Screen::toggle_section: a run of items collapses or expands; the selected
\* line stays, the number of visible items becomes n
toggle_section(s, n) == IF s.n = 0 THEN s ELSE [s EXCEPT !.n = Max(n, 1)]

\* Screen::get_selected_item indexes the visible items with the cursor
selected_in_range(s) == s.cursor < s.n

----------------------------------------------------------------------------
(* Commands *)

GitCmd(name) == [prog |-> "git", args |-> << <<name>> >>]

fetch_all_cmd == GitCmd("fetch_all")

commit_cmd == GitCmd("commit")

push_cmd == GitCmd("push")

pull_cmd == GitCmd("pull")

stage_file_cmd(f) == [prog |-> "git", args |-> << <<"stage_file">>, <<f>> >>]

unstage_file_cmd(f) == [prog |-> "git", args |-> << <<"unstage_file">>, <<f>> >>]

stage_patch_cmd == GitCmd("stage_patch")

unstage_patch_cmd == GitCmd("unstage_patch")

TerminalEditors == {"vi", "vim", "nvim", "nano"}

\* format!("{}", hunk.new_start): the decimal digits of the line number, a u32
Digit(d) ==
    CASE d = 0 -> "0" [] d = 1 -> "1" [] d = 2 -> "2" [] d = 3 -> "3" [] d = 4 -> "4"
      [] d = 5 -> "5" [] d = 6 -> "6" [] d = 7 -> "7" [] d = 8 -> "8" [] d = 9 -> "9"

RECURSIVE Dec(_)
Dec(n) == IF n < 10 THEN Digit(n) ELSE Dec(n \div 10) \o Digit(n % 10)

\* a selected hunk as editor_cmd receives it: Some(h) is <<h>>, None is <<>>
SomeHunk(path, new_start) == <<[new_file |-> path, new_start |-> new_start]>>

NoHunk == <<>>

\* editor_cmd giving every editor the arguments of a terminal editor
editor_cmd_plus(ed, delta, maybe_hunk) ==
    [prog |-> ed,
     args |-> IF maybe_hunk # NoHunk
              THEN << <<"+", Dec(maybe_hunk[1].new_start)>>, <<delta>> >>
              ELSE << <<delta>> >>]

\* editor_cmd, EDITOR being set to ed; an argument is the sequence of its parts
editor_cmd(ed, delta, maybe_hunk) ==
    [prog |-> ed,
     args |-> IF maybe_hunk # NoHunk
              THEN IF ed \in TerminalEditors
                   THEN << <<"+", Dec(maybe_hunk[1].new_start)>>, <<delta>> >>
                   ELSE << <<delta, ":", Dec(maybe_hunk[1].new_start)>> >>
              ELSE << <<delta>> >>]

\* Hunk::format_patch: the file's two headers, the hunk header and its body
format_patch(h) == <<"--- a/", h.new_file, "+++ b/", h.new_file, "@@", Dec(h.new_start)>>

NoInput == <<>>

NoCommand == [prog |-> "", args |-> <<>>]

----------------------------------------------------------------------------
(* The calls an event makes, recorded in order *)

\* a call; one with what it found (arg); one that passes a command and its stdin
Fx(call) == [call |-> call, arg |-> "", cmd |-> NoCommand, input |-> NoInput]

FxArg(call, arg) == [call |-> call, arg |-> arg, cmd |-> NoCommand, input |-> NoInput]

FxCmd(call, cmd, input) == [call |-> call, arg |-> "", cmd |-> cmd, input |-> input]

Calls(f) == [i \in 1..Len(f) |-> f[i].call]

Count(f, call) == Cardinality({i \in 1..Len(f) : f[i].call = call})

----------------------------------------------------------------------------
(* The state a handler works on: st = [screens, quit, term, fx, res]       *)
(* res is "ok", "err" (an io::Error returned by ?) or a panic message.     *)

Ok == "ok"

Err == "err"

PanicNoScreen == "No screen"

PanicTodo == "not yet implemented"

PanicEditor == "EDITOR not set"

PanicIndex == "index out of bounds"

Panics == {PanicNoScreen, PanicTodo, PanicEditor, PanicIndex}

Fail(st, how) == [st EXCEPT !.res = how]

Did(st, f) == [st EXCEPT !.fx = Append(@, f)]

\* apply a Screen method to the top screen
OnTop(st, s) == [st EXCEPT !.screens = SetTop(@, s)]

Top(st) == Last(st.screens)

\* screen.refresh_items() on the top screen
Refresh(st, n) == Did(OnTop(st, refresh_items(Top(st), n)), Fx("refresh_items"))

\* issue_command spawning whatever command the screen holds
Issue_unchecked(st, input, cmd, e) ==
    LET called == Did(st, FxCmd("issue_command", cmd, input)) IN
    IF e.fail = "spawn" THEN Fail(called, Err)
    ELSE Did(OnTop(called, [Top(st) EXCEPT !.cmd = "running"]),
             FxCmd("spawn_bg", cmd, input))

\* screen.issue_command(input, cmd)? on the top screen; spawning may fail
Issue(st, input, cmd, e) ==
    LET called == Did(st, FxCmd("issue_command", cmd, input)) IN
    IF ~issue_accepts(Top(st)) THEN called
    ELSE IF e.fail = "spawn" THEN Fail(called, Err)
    ELSE Did(OnTop(called, issue_command(Top(st))), FxCmd("spawn_bg", cmd, input))

----------------------------------------------------------------------------
(* main.rs: the handlers.  e is the terminal event with the answers of the *)
(* outside world to the calls the handler makes: e.act the Actionable of   *)
(* the selected item, e.n the number of items the collector returns,       *)
(* e.fail the call that returns an io::Error, e.status the exit status of  *)
(* a foreground child, e.editor the value of EDITOR (NoEditor when unset), *)
(* e.tsize the result of terminal::size().                                 *)

\* open_subscreen returning an error when the child's exit status is not 0
open_subscreen_checks_status(st, input, cmd, e) ==
    IF e.fail = "spawn" THEN Fail(Did(st, FxCmd("spawn", cmd, input)), Err)
    ELSE
    LET spawned == Did([st EXCEPT !.term = [hidden |-> FALSE, clean |-> FALSE]],
                       FxCmd("spawn", cmd, input))
        written == Did(Did(spawned, Fx("write_stdin")), Fx("close_stdin"))
        waited  == Did(written, Fx("wait"))
        hidden  == Did([waited EXCEPT !.term.hidden = TRUE], Fx("hide_cursor"))
        cleared == Did([hidden EXCEPT !.term.clean = TRUE], Fx("clear"))
    IN  IF e.fail = "write" THEN Fail(Did(spawned, Fx("close_stdin")), Err)
        ELSE IF e.fail = "wait" \/ e.status # 0 THEN Fail(written, Err)
        ELSE IF e.fail = "hide_cursor" THEN Fail(waited, Err)
        ELSE IF e.fail = "clear" THEN Fail(hidden, Err)
        ELSE cleared

\* open_subscreen (lines 248-268): the child has the terminal from the spawn
\* on; each ? returns the io::Error at once
open_subscreen(st, input, cmd, e) ==
    IF e.fail = "spawn" THEN Fail(Did(st, FxCmd("spawn", cmd, input)), Err)
    ELSE
    LET spawned == Did([st EXCEPT !.term = [hidden |-> FALSE, clean |-> FALSE]],
                       FxCmd("spawn", cmd, input))
        written == Did(Did(spawned, Fx("write_stdin")), Fx("close_stdin"))
        waited  == Did(written, Fx("wait"))
        hidden  == Did([waited EXCEPT !.term.hidden = TRUE], Fx("hide_cursor"))
        cleared == Did([hidden EXCEPT !.term.clean = TRUE], Fx("clear"))
    IN  IF e.fail = "write" THEN Fail(Did(spawned, Fx("close_stdin")), Err)
        ELSE IF e.fail = "wait" THEN Fail(written, Err)
        ELSE IF e.fail = "hide_cursor" THEN Fail(waited, Err)
        ELSE IF e.fail = "clear" THEN Fail(hidden, Err)
        ELSE cleared

\* goto_show_screen (lines 220-223)
goto_show_screen(st, e) ==
    IF e.fail = "size" THEN Fail(st, Err)
    ELSE Did([st EXCEPT !.screens = Append(@, create("show", e.tsize, e.n))],
             Fx("push"))

\* goto_log_screen pushing onto the whole stack
goto_log_screen_keeps(st, e) ==
    IF e.fail = "size" THEN Fail(st, Err)
    ELSE Did([st EXCEPT !.screens = Append(@, create("log", e.tsize, e.n))],
             Fx("push"))

\* goto_log_screen (lines 225-229)
goto_log_screen(st, e) ==
    LET drained == [st EXCEPT !.screens = SubSeq(@, 1, 1)] IN
    IF e.fail = "size" THEN Fail(drained, Err)
    ELSE Did([drained EXCEPT !.screens = Append(@, create("log", e.tsize, e.n))],
             Fx("push"))

\* edit with the child spawned before EDITOR is looked up
edit_spawns_first(st, delta, maybe_hunk, e) ==
    LET r == open_subscreen(st, NoInput, editor_cmd(e.editor, delta, maybe_hunk), e)
    IN  IF r.res # Ok THEN r
        ELSE IF e.editor = NoEditor THEN Fail(r, PanicEditor)
        ELSE Refresh(r, e.n)

\* open_subscreen(terminal, &[], editor_cmd(..))?; screen.refresh_items()
\* the arguments are evaluated first: editor_cmd panics when EDITOR is unset
edit(st, delta, maybe_hunk, e) ==
    IF e.editor = NoEditor THEN Fail(st, PanicEditor)
    ELSE LET r == open_subscreen(st, NoInput,
                                 editor_cmd(e.editor, delta, maybe_hunk), e)
         IN  IF r.res # Ok THEN r ELSE Refresh(r, e.n)

\* screen.issue_command(input, cmd)?; screen.refresh_items()
issue_and_refresh(st, input, cmd, e) ==
    LET r == Issue(st, input, cmd, e)
    IN  IF r.res # Ok THEN r ELSE Refresh(r, e.n)

\* the selected item's hunk, Some(h)
HunkOf(e) == SomeHunk(e.path, e.new_start)

\* handle_target_action, lines 166-184: TargetOp::ShowOrEdit => match act
show_or_edit(st, e) ==
    CASE e.act = "Ref"       -> goto_show_screen(st, e)
      [] e.act = "Untracked" -> edit(st, e.path, NoHunk, e)
      [] e.act = "Delta"     -> edit(st, e.path, NoHunk, e)
      [] e.act = "Hunk"      -> edit(st, e.path, HunkOf(e), e)
      [] e.act = "DiffLine"  -> Fail(st, PanicTodo)

\* handle_target_action, lines 185-200: TargetOp::Stage => match act
stage(st, e) ==
    CASE e.act = "Ref"       -> Fail(st, PanicTodo)
      [] e.act = "Untracked" -> issue_and_refresh(st, NoInput, stage_file_cmd(e.path), e)
      [] e.act = "Delta"     -> issue_and_refresh(st, NoInput, stage_file_cmd(e.path), e)
      [] e.act = "Hunk"      ->
           issue_and_refresh(st, format_patch(HunkOf(e)[1]), stage_patch_cmd, e)
      [] e.act = "DiffLine"  -> Fail(st, PanicTodo)

\* unstage passing the patch of a hunk as an argument and no input
unstage_without_input(st, e) ==
    CASE e.act = "Ref"       -> Fail(st, PanicTodo)
      [] e.act = "Untracked" -> Fail(st, PanicTodo)
      [] e.act = "Delta"     -> issue_and_refresh(st, NoInput, unstage_file_cmd(e.path), e)
      [] e.act = "Hunk"      -> issue_and_refresh(st, NoInput, unstage_patch_cmd, e)
      [] e.act = "DiffLine"  -> Fail(st, PanicTodo)

\* handle_target_action, lines 201-213: TargetOp::Unstage => match act
unstage(st, e) ==
    CASE e.act = "Ref"       -> Fail(st, PanicTodo)
      [] e.act = "Untracked" -> Fail(st, PanicTodo)
      [] e.act = "Delta"     -> issue_and_refresh(st, NoInput, unstage_file_cmd(e.path), e)
      [] e.act = "Hunk"      ->
           issue_and_refresh(st, format_patch(HunkOf(e)[1]), unstage_patch_cmd, e)
      [] e.act = "DiffLine"  -> Fail(st, PanicTodo)

\* handle_target_action refreshing the screen when the item has no Actionable
handle_target_action_refreshes(st, target_action, e) ==
    IF st.screens = <<>> THEN Fail(st, PanicNoScreen)
    ELSE IF ~selected_in_range(Top(st)) THEN Fail(st, PanicIndex)
    ELSE IF e.act = "none" THEN Refresh(st, Top(st).n)
    ELSE CASE target_action = "ShowOrEdit" -> show_or_edit(st, e)
           [] target_action = "Stage"      -> stage(st, e)
           [] target_action = "Unstage"    -> unstage(st, e)

\* handle_target_action (lines 159-218)
handle_target_action(st, target_action, e) ==
    IF st.screens = <<>> THEN Fail(st, PanicNoScreen)
    ELSE IF ~selected_in_range(Top(st)) THEN Fail(st, PanicIndex)
    ELSE IF e.act = "none" THEN st
    ELSE CASE target_action = "ShowOrEdit" -> show_or_edit(st, e)
           [] target_action = "Stage"      -> stage(st, e)
           [] target_action = "Unstage"    -> unstage(st, e)

\* handle_action, lines 131-153: match action
dispatch(st, action, e) ==
    LET screen == Top(st)
    IN  CASE action = "Quit" -> [st EXCEPT !.quit = TRUE]
          [] action = "Refresh" -> Refresh(st, e.n)
          [] action = "ToggleSection" -> OnTop(st, toggle_section(screen, e.n))
          [] action = "SelectPrevious" -> OnTop(st, select_previous(screen))
          [] action = "SelectNext" -> OnTop(st, select_next(screen))
          [] action = "HalfPageUp" -> OnTop(st, scroll_half_page_up(screen))
          [] action = "HalfPageDown" -> OnTop(st, scroll_half_page_down(screen))
          [] action = "Log" -> goto_log_screen(st, e)
          [] action = "Fetch" -> issue_and_refresh(st, NoInput, fetch_all_cmd, e)
          [] action = "Commit" ->
               (LET r == open_subscreen(st, NoInput, commit_cmd, e)
                IN  IF r.res # Ok THEN r ELSE Refresh(r, e.n))
          [] action = "Push" -> Issue(st, NoInput, push_cmd, e)
          [] action = "Pull" -> Issue(st, NoInput, pull_cmd, e)
          [] action \in TargetOp -> handle_target_action(st, action, e)

\* handle_action refreshing the screen on a key without a binding
handle_action_refreshes(st, key, e) ==
    IF st.screens = <<>> THEN Fail(st, PanicNoScreen)
    ELSE LET action == action_of_key_event(key)
         IN  IF action = NoOp THEN Refresh(st, MaxItems) ELSE dispatch(st, action, e)

\* handle_action (lines 125-157)
handle_action(st, key, e) ==
    IF st.screens = <<>> THEN Fail(st, PanicNoScreen)
    ELSE LET action == action_of_key_event(key)
         IN  IF action = NoOp THEN st ELSE dispatch(st, action, e)

\* pop_on_quit leaving at the first Quit, whatever the depth of the stack
pop_on_quit_all(st, e) ==
    IF ~st.quit THEN st
    ELSE Did([st EXCEPT !.screens = <<>>], Fx("pop"))

\* pop_on_quit with quit reset whether or not a screen is left
pop_on_quit_resets(st, e) ==
    IF ~st.quit THEN st
    ELSE LET popped == Did([st EXCEPT !.screens = Front(@), !.quit = FALSE], Fx("pop")) IN
         IF popped.screens = <<>> THEN popped
         ELSE Refresh(popped, e.n)

\* pop_on_quit refreshing the screen it pops instead of the one beneath
pop_on_quit_stale(st, e) ==
    IF ~st.quit THEN st
    ELSE LET popped == Did([Refresh(st, e.n) EXCEPT !.screens = Front(@)], Fx("pop")) IN
         IF popped.screens = <<>> THEN popped
         ELSE [popped EXCEPT !.quit = FALSE]

\* handle_events, lines 114-120: a screen that signalled quit is popped, and
\* the screen beneath, if any, becomes active again and is refreshed
pop_on_quit(st, e) ==
    IF ~st.quit THEN st
    ELSE LET popped == Did([st EXCEPT !.screens = Front(@)], Fx("pop")) IN
         IF popped.screens = <<>> THEN popped
         ELSE Refresh([popped EXCEPT !.quit = FALSE], e.n)

\* handle_events dismissing the finished command after the key's operation
handle_events_clears_after(st, e) ==
    IF e.type = "poll_error" THEN Fail(st, Err)
    ELSE IF e.type = "timeout" THEN st
    ELSE IF st.screens = <<>> THEN Fail(st, PanicNoScreen)
    ELSE IF e.type = "read_error" THEN Fail(st, Err)
    ELSE
    LET acted == handle_action(st, e.key, e)
        handled ==
          CASE e.type = "resize" -> OnTop(st, [Top(st) EXCEPT !.size = e.size])
            [] e.type = "key" /\ e.kind = "Press" ->
                 IF acted.res # Ok \/ acted.screens = <<>> THEN acted
                 ELSE Did(OnTop(acted, clear_finished_command(Top(acted))),
                          FxArg("clear_finished_command", Top(acted).cmd))
            [] OTHER -> st
    IN  IF handled.res # Ok THEN handled ELSE pop_on_quit(handled, e)

\* the dismissal of line 106, recorded with the command it found
dismiss(st) ==
    Did(OnTop(st, clear_finished_command(Top(st))),
        FxArg("clear_finished_command", Top(st).cmd))

\* match_event dismissing a finished command on every event read
match_event_dismisses(st, e) ==
    CASE e.type = "resize" -> dismiss(OnTop(st, [Top(st) EXCEPT !.size = e.size]))
      [] e.type = "key" /\ e.kind = "Press" -> handle_action(dismiss(st), e.key, e)
      [] OTHER -> dismiss(st)

\* handle_events, lines 102-112: match event::read()?
match_event(st, e) ==
    CASE e.type = "resize" -> OnTop(st, [Top(st) EXCEPT !.size = e.size])
      [] e.type = "key" /\ e.kind = "Press" -> handle_action(dismiss(st), e.key, e)
      [] OTHER -> st

\* handle_events (lines 92-123)
handle_events(st, e) ==
    IF e.type = "poll_error" THEN Fail(st, Err)
    ELSE IF e.type = "timeout" THEN st
    ELSE IF st.screens = <<>> THEN Fail(st, PanicNoScreen)
    ELSE IF e.type = "read_error" THEN Fail(st, Err)
    ELSE LET handled == match_event(st, e)
         IN  IF handled.res # Ok THEN handled ELSE pop_on_quit(handled, e)

\* handle_events up to cmd.wait() (line 262): nothing is done between the
\* call of wait and its ?, so the state in which the wait is entered is the
\* state in which an error of the wait would leave the handler
at_wait(st, e) == handle_events(st, [e EXCEPT !.fail = "wait"])

\* the handling of e blocks in cmd.wait(): e is a key press whose operation
\* hands the terminal to a child that was spawned and whose stdin was written
Blocks(st, e) ==
    /\ e.type = "key" /\ e.kind = "Press"
    /\ e.key = "Commit" \/ (e.key = "ShowOrEdit" /\ e.act \in {"Untracked", "Delta", "Hunk"})
    /\ e.fail \notin {"spawn", "write"}
    /\ at_wait(st, e).res = Err

\* the rest of handle_events once cmd.wait() returns (lines 262-267, the
\* refresh_items that follows open_subscreen, lines 114-120), st being the
\* state at the wait and done the calls made before it.  Those calls change
\* nothing when made on the state they left (the finished command is
\* dismissed, the terminal is the child's), so the rest of the call is the
\* whole of it on st, less the calls already made.
wait_returns(st, e, done) ==
    LET r == handle_events([st EXCEPT !.fx = <<>>], e)
    IN  [r EXCEPT !.fx = done \o SubSeq(@, Len(done) + 1, Len(@))]

----------------------------------------------------------------------------
(* Terminal events *)

NoSize == <<0, 0>>

NoEvent ==
    [type |-> "none", key |-> "", kind |-> "", size |-> NoSize, act |-> "none",
     n |-> 0, fail |-> "none", status |-> 0, path |-> "", new_start |-> 0,
     editor |-> "", tsize |-> NoSize]

\* the operations of a key that create a screen, sized by terminal::size()
Creates(key, act) == key = "Log" \/ (key = "ShowOrEdit" /\ act = "Ref")

\* the operations of a key that read EDITOR
Edits(key, act) == key = "ShowOrEdit" /\ act \in {"Untracked", "Delta", "Hunk"}

\* the operations of a key that hand the terminal to a foreground child
Foreground(key, act) == key = "Commit" \/ Edits(key, act)

\* the calls of open_subscreen that can return an io::Error once the child
\* has been spawned and its stdin written
FailsAfterWait == {"wait", "hide_cursor", "clear"}

\* the calls of a key's operation that can return an io::Error; for a
\* foreground operation, those made before it waits for the child
FailsOf(key, act) ==
    IF Foreground(key, act)
    THEN {"none", "spawn", "write"}
    ELSE IF \/ key \in {"Fetch", "Push", "Pull"}
            \/ key = "Stage" /\ act \in {"Untracked", "Delta", "Hunk"}
            \/ key = "Unstage" /\ act \in {"Delta", "Hunk"}
    THEN {"none", "spawn"}
    ELSE IF Creates(key, act)
    THEN {"none", "size"}
    ELSE {"none"}

Key(k, a) == [NoEvent EXCEPT !.type = "key", !.kind = "Press", !.key = k, !.act = a]

\* the selected item's file, and its line when the item is a hunk
Selected(k, a) ==
    { [Key(k, a) EXCEPT !.path = p, !.new_start = l] :
        p \in Paths, l \in IF a = "Hunk" THEN NewStarts ELSE {0} }

\* a key press carries only the answers its operation asks for
Events ==
    { [NoEvent EXCEPT !.type = t] : t \in {"timeout", "poll_error", "read_error", "other"} }
    \cup { [NoEvent EXCEPT !.type = "key", !.kind = k, !.key = UnboundKey] :
             k \in {"Release", "Repeat"} }
    \cup { [NoEvent EXCEPT !.type = "resize", !.size = s] : s \in Sizes }
    \cup { Key(k, "none") :
             k \in {UnboundKey, "SelectPrevious", "SelectNext", "HalfPageUp",
                    "HalfPageDown", "Push", "Pull"} \cup TargetOp }
    \cup { [Key(k, "none") EXCEPT !.fail = "spawn"] : k \in {"Fetch", "Push", "Pull"} }
    \cup { [Key(k, "none") EXCEPT !.n = n] :
             k \in {"Quit", "Refresh", "ToggleSection", "Fetch"}, n \in ItemCounts }
    \cup { [Key("Log", "none") EXCEPT !.n = n, !.tsize = s] : n \in ItemCounts, s \in Sizes }
    \cup { [Key("ShowOrEdit", "Ref") EXCEPT !.n = n, !.tsize = s, !.editor = d] :
             n \in ItemCounts, s \in Sizes, d \in Editors \cup {NoEditor} }
    \cup { [Key("Log", "none") EXCEPT !.fail = "size"],
           [Key("ShowOrEdit", "Ref") EXCEPT !.fail = "size", !.editor = NoEditor] }
    \cup { [Key("Commit", "none") EXCEPT !.fail = f] : f \in FailsOf("Commit", "none") }
    \cup { Key(k, "DiffLine") : k \in TargetOp }
    \cup { Key("Stage", "Ref"), Key("Unstage", "Ref"), Key("Unstage", "Untracked") }
    \cup UNION { { [s EXCEPT !.editor = NoEditor] : s \in Selected("ShowOrEdit", a) } :
                 a \in {"Untracked", "Delta", "Hunk"} }
    \cup UNION { { [s EXCEPT !.editor = d, !.fail = f] :
                     s \in Selected("ShowOrEdit", a), d \in Editors,
                     f \in FailsOf("ShowOrEdit", a) } :
                 a \in {"Untracked", "Delta", "Hunk"} }
    \cup UNION { { [s EXCEPT !.n = n] : s \in Selected(k[1], k[2]), n \in ItemCounts } :
                 k \in {<<"Stage", "Untracked">>, <<"Stage", "Delta">>, <<"Stage", "Hunk">>,
                        <<"Unstage", "Delta">>, <<"Unstage", "Hunk">>} }
    \cup UNION { { [s EXCEPT !.fail = "spawn"] : s \in Selected(k[1], k[2]) } :
                 k \in {<<"Stage", "Untracked">>, <<"Stage", "Delta">>, <<"Stage", "Hunk">>,
                        <<"Unstage", "Delta">>, <<"Unstage", "Hunk">>} }

\* the answers the rest of a foreground operation gets once its child has
\* exited, e being the key press that spawned it: the exit status (of git
\* commit) and the items of the refresh, or the call that fails
Returns(e) ==
    { [e EXCEPT !.n = n, !.status = x] :
        n \in ItemCounts, x \in IF e.key = "Commit" THEN ExitStatus ELSE {0} }
    \cup { [e EXCEPT !.fail = f] : f \in FailsAfterWait }

\* the operation a key press resolves to, NoOp for any other event
OpOf(e) == IF e.type = "key" /\ e.kind = "Press" THEN action_of_key_event(e.key) ELSE NoOp

\* the answers of the terminal counted against MaxOps: all but the timeout
\* of event::poll
Acts(e) == e.type # "timeout"

----------------------------------------------------------------------------
(* run_app *)

\* the root screens: gitu without a subcommand, gitu log, gitu show
RootKinds == {"status", "log", "show"}

\* create_initial_state (lines 58-73); main hides the cursor (line 46)
Init ==
    /\ \E k \in RootKinds, n \in ItemCounts : screens = <<create(k, InitialSize, n)>>
    /\ quit = FALSE
    /\ term = [hidden |-> TRUE, clean |-> TRUE]
    /\ pc = "loop"
    /\ panic = ""
    /\ ev = NoEvent
    /\ fx = <<>>
    /\ ops = 0
    /\ pushedOnto = <<>>

\* run_app, line 76: the loop ends when quit is set
LoopExit ==
    /\ pc = "loop"
    /\ quit
    /\ pc' = "exited"
    /\ UNCHANGED <<screens, quit, term, panic, ev, fx, ops, pushedOnto>>

\* run_app drawing the active screen without polling its command
draw_only(ss, n) == [screens |-> ss, fx |-> <<Fx("draw")>>]

\* run_app polling the command of every screen of the stack
draw_and_poll_all(ss, n) ==
    [screens |-> [i \in 1..Len(ss) |->
                    handle_command_output(ss[i], IF i = Len(ss) THEN n ELSE ss[i].n)],
     fx |-> IF ss = <<>> THEN <<>>
            ELSE <<Fx("draw"), Fx("handle_command_output")>>
                 \o (IF Last(ss).cmd = "exited" THEN <<Fx("refresh_items")>> ELSE <<>>)]

\* run_app polling the command without the screen being reconciled: the
\* exit is marked, the items stay
draw_and_mark(ss, n) ==
    IF ss = <<>> THEN [screens |-> ss, fx |-> <<>>]
    ELSE [screens |-> SetTop(ss, [handle_command_output(Last(ss), n)
                                    EXCEPT !.n = Last(ss).n]),
          fx |-> <<Fx("draw"), Fx("handle_command_output")>>]

\* run_app, lines 77-80, the draw having succeeded: screen.handle_command_output()
\* on the active screen, if there is one; the calls made are recorded
draw_and_poll(ss, n) ==
    IF ss = <<>> THEN [screens |-> ss, fx |-> <<>>]
    ELSE [screens |-> SetTop(ss, handle_command_output(Last(ss), n)),
          fx |-> <<Fx("draw"), Fx("handle_command_output")>>
                 \o (IF Last(ss).cmd = "exited" THEN <<Fx("refresh_items")>> ELSE <<>>)]

\* run_app, lines 77-80: with a screen on the stack, draw it (terminal.draw
\* may return an io::Error), then poll its command; n is the number of
\* items the collector returns if the poll refreshes
Draw ==
    /\ pc = "loop"
    /\ ~quit
    /\ \/ /\ screens # <<>>
          /\ pc' = "error"
          /\ UNCHANGED <<screens, fx>>
       \/ /\ \E n \in ItemCounts :
               /\ n # 0 => (screens # <<>> /\ Last(screens).cmd = "exited")
               /\ \E r \in {draw_and_poll(screens, n)} :
                    screens' = r.screens /\ fx' = r.fx
          /\ pc' = "events"
    /\ UNCHANGED <<quit, term, panic, ev, ops, pushedOnto>>

\* whether e was ShowOrEdit on a Ref
ShowsRef(e) == OpOf(e) = "ShowOrEdit" /\ e.act = "Ref"

\* the stack goto_show_screen pushes onto when e is ShowOrEdit on a Ref: the
\* stack as the operation finds it
PushedOnto(e, r) ==
    IF ShowsRef(e) /\ r.res = Ok
    THEN SetTop(screens, clear_finished_command(Last(screens)))
    ELSE pushedOnto

\* the handler's state as handle_events is entered
Entered == [screens |-> screens, quit |-> quit, term |-> term, fx |-> <<>>, res |-> Ok]

\* run_app, line 82: handle_events(state)?, the event being e.  The call
\* runs to its end, or to cmd.wait() when its operation hands the terminal
\* to a foreground child.
Handle(e) ==
    /\ pc = "events"
    /\ Acts(e) => ops < MaxOps
    /\ ops' = IF Acts(e) THEN ops + 1 ELSE ops
    /\ \E b \in {Blocks(Entered, e)} :
       \E r \in {IF b THEN at_wait(Entered, e) ELSE handle_events(Entered, e)} :
         /\ screens' = r.screens
         /\ quit' = r.quit
         /\ term' = r.term
         /\ fx' = r.fx
         /\ ev' = e
         /\ pc' = IF b THEN "wait"
                  ELSE IF r.res = Ok THEN "clamp"
                  ELSE IF r.res = Err THEN "error" ELSE "panic"
         /\ panic' = IF ~b /\ r.res \in Panics THEN r.res ELSE ""
         /\ pushedOnto' = PushedOnto(e, r)

HandleEvents == \E e \in Events : Handle(e)

\* open_subscreen, line 262: the foreground child has exited and cmd.wait()
\* returns; handle_events goes on to its end.  ev is completed with the
\* answers of the calls made from here on.
WaitReturns ==
    /\ pc = "wait"
    /\ \E a \in Returns(ev) : \E r \in {wait_returns(Entered, a, fx)} :
         /\ ev' = a
         /\ screens' = r.screens
         /\ quit' = r.quit
         /\ term' = r.term
         /\ fx' = r.fx
         /\ pc' = IF r.res = Ok THEN "clamp"
                  ELSE IF r.res = Err THEN "error" ELSE "panic"
         /\ panic' = IF r.res \in Panics THEN r.res ELSE ""
    /\ UNCHANGED <<ops, pushedOnto>>

\* run_app, lines 84-86: clamp the cursor of the active screen
Clamp ==
    /\ pc = "clamp"
    /\ screens' = IF screens # <<>> THEN SetTop(screens, clamp_cursor(Last(screens)))
                  ELSE screens
    /\ pc' = "loop"
    /\ ev' = NoEvent
    /\ fx' = <<>>
    /\ pushedOnto' = IF OpOf(ev) = NoOp \/ ShowsRef(ev) THEN pushedOnto ELSE <<>>
    /\ UNCHANGED <<quit, term, panic, ops>>

\* the child of a screen's background command exits, before a draw, while
\* handle_events waits for an event or while it waits for a foreground
\* child; the loop learns of it through the poll of Draw
ChildExit ==
    /\ pc \in {"loop", "events", "wait"}
    /\ \E i \in 1..Len(screens) :
         /\ screens[i].cmd = "running"
         /\ screens' = [screens EXCEPT ![i].cmd = "exited"]
    /\ UNCHANGED <<quit, term, pc, panic, ev, fx, ops, pushedOnto>>

Next == LoopExit \/ Draw \/ HandleEvents \/ WaitReturns \/ Clamp \/ ChildExit

Spec == Init /\ [][Next]_vars

\* the events of the runs explored for progress: those that dispatch
\* nothing, and the key presses that issue a command, move the cursor, push
\* a screen, pop one or hand the terminal to git commit
LiveEvents ==
    { e \in Events : OpOf(e) = NoOp /\ e.type # "resize" }
    \cup { e \in Events : OpOf(e) \in {"Fetch", "Quit"} }
    \cup { Key("SelectNext", "none"), Key("Push", "none"), Key("Commit", "none") }
    \cup { e \in Events : ShowsRef(e) /\ e.editor = NoEditor /\ e.tsize # <<40, 12>> }

HandleLiveEvents == \E e \in LiveEvents : Handle(e)

LiveNext == LoopExit \/ Draw \/ HandleLiveEvents \/ WaitReturns \/ Clamp \/ ChildExit

\* the events of the runs explored for the staging of a hunk: the only
\* operation that issues a command is Stage on a hunk
StageEvents ==
    { e \in Events : OpOf(e) = NoOp /\ e.type # "resize" }
    \cup { e \in Events : OpOf(e) = "Stage" /\ e.act = "Hunk" }
    \cup { e \in Events : OpOf(e) \in {"Quit", "Refresh"} }
    \cup { Key("SelectNext", "none") }
    \cup { e \in Events : ShowsRef(e) /\ e.editor = NoEditor /\ e.tsize # <<40, 12>> }

HandleStageEvents == \E e \in StageEvents : Handle(e)

StageNext == LoopExit \/ Draw \/ HandleStageEvents \/ Clamp \/ ChildExit

\* every step of run_app's loop returns: the draw, the bounded wait of
\* event::poll (100 ms, line 94) and the handling of the event read, the
\* clamp; nothing is assumed of the children of background commands, nor
\* of a foreground child, which may hold the terminal for ever
LiveSpec ==
    /\ Init /\ [][LiveNext]_vars
    /\ WF_vars(Draw) /\ WF_vars(HandleLiveEvents) /\ WF_vars(Clamp) /\ WF_vars(LoopExit)

StageSpec ==
    /\ Init /\ [][StageNext]_vars
    /\ WF_vars(Draw) /\ WF_vars(HandleStageEvents) /\ WF_vars(Clamp) /\ WF_vars(LoopExit)

TypeOK ==
    /\ \A i \in 1..Len(screens) :
         /\ screens[i].kind \in Kinds
         /\ screens[i].size \in Sizes
         /\ screens[i].n \in 0..MaxItems
         /\ screens[i].cursor \in Nat
         /\ screens[i].cmd \in CmdStates
    /\ quit \in BOOLEAN
    /\ term \in [hidden : BOOLEAN, clean : BOOLEAN]
    /\ pc \in {"loop", "events", "wait", "clamp", "exited", "error", "panic"}
    /\ panic \in Panics \cup {""}
    /\ \/ ev \in Events \cup {NoEvent}
       \/ /\ Foreground(ev.key, ev.act)
          /\ [ev EXCEPT !.n = 0, !.status = 0, !.fail = "none"] \in Events
          /\ ev.n \in ItemCounts /\ ev.status \in ExitStatus
          /\ ev.fail \in FailsAfterWait \cup {"none"}
    /\ ops \in 0..MaxOps

----------------------------------------------------------------------------
(* Properties *)

\* handle_events has handled a key press that resolved to op, and run_app
\* is at the point named by pc
Handled(op) == ev.type = "key" /\ ev.kind = "Press" /\ OpOf(ev) = op

\* C1: the stack is non-empty wherever handle_events, handle_action or
\* handle_target_action dereference its top: the panic "No screen" never
\* happens, and the stack is empty only with quit set and the loop about to
\* end (no draw, no event handling follows).
C1_NeverNoScreen ==
    /\ panic # PanicNoScreen
    /\ pc = "events" => screens # <<>>
    /\ screens = <<>> => quit /\ pc \in {"clamp", "loop", "exited"}
    /\ pc = "exited" => screens = <<>> /\ quit

\* C1 witness: the last screen was quit and run_app returned
C1_Witness == pc = "exited" /\ screens = <<>> /\ quit

\* a screen's fields as the program holds them: that the child has exited is
\* a fact of the outside world until handle_command_output polls it
Held(s) == [s EXCEPT !.cmd = IF @ = "exited" THEN "running" ELSE @]

HeldAll(ss) == [i \in 1..Len(ss) |-> Held(ss[i])]

\* C2: when ShowOrEdit on a Ref pushed a show screen onto a stack S and the
\* next operation is Quit, the stack is S again: the screens beneath the top
\* are the same, the top is the screen that was active before the push with
\* its items rebuilt by exactly one refresh_items, quit is false again and
\* the loop goes on.
C2_PushThenQuitReturns ==
    (Handled("Quit") /\ pushedOnto # <<>>) =>
        /\ pc = "clamp"
        /\ ~quit
        /\ Len(screens) = Len(pushedOnto)
        /\ HeldAll(Front(screens)) = HeldAll(Front(pushedOnto))
        /\ Held([Last(screens) EXCEPT !.n = 0]) = Held([Last(pushedOnto) EXCEPT !.n = 0])
        /\ Last(screens).n = ev.n
        /\ Calls(fx) = <<"clear_finished_command", "pop", "refresh_items">>

\* C2 witness: a show screen was pushed onto a stack of two screens, then
\* quit; the screen beneath has new items
C2_Witness ==
    /\ Handled("Quit")
    /\ Len(pushedOnto) = 2
    /\ pc = "clamp"
    /\ Len(screens) = 2
    /\ Last(screens).n # Last(pushedOnto).n

\* the stack as the operation of a key press finds it: line 106 has
\* dismissed a finished command of the active screen
Found == SetTop(screens, clear_finished_command(Last(screens)))

\* the pairs of handle_target_action with no supported behaviour
Unsupported(e) ==
    /\ OpOf(e) \in TargetOp
    /\ \/ e.act = "DiffLine"
       \/ e.act = "Ref" /\ OpOf(e) \in {"Stage", "Unstage"}
       \/ e.act = "Untracked" /\ OpOf(e) = "Unstage"

\* C3: a target operation on a selected item whose Actionable it does not
\* support leaves the stack, the active screen and quit as the operation
\* found them, spawns no process and does not abort the application.
C3_UnsupportedIsNoOp ==
    [][(pc = "events" /\ pc' # "events" /\ Unsupported(ev')
            /\ selected_in_range(Last(screens)))
        => /\ pc' = "clamp"
           /\ screens' = Found
           /\ quit' = quit
           /\ Count(fx', "spawn") = 0 /\ Count(fx', "spawn_bg") = 0]_vars

\* C4 as stated: a key press without a binding leaves the active screen, a
\* finished command it shows included, as it was.
C4_UnboundKeyLeavesScreen ==
    [][(pc = "events" /\ pc' # "events" /\ ev' = Key(UnboundKey, "none"))
        => screens' = screens]_vars

\* C4: a key press without a binding produces no operation and changes
\* nothing but the finished command of the active screen, which it dismisses
\* as every key press does (line 106); a command still pending stays.
C4_UnboundKeyOnlyDismisses ==
    [][(pc = "events" /\ pc' # "events" /\ ev' = Key(UnboundKey, "none"))
        => /\ pc' = "clamp"
           /\ Len(screens') = Len(screens)
           /\ Front(screens') = Front(screens)
           /\ Last(screens') =
                [Last(screens) EXCEPT !.cmd = IF @ = "finished" THEN NoCmd ELSE @]
           /\ quit' = quit /\ term' = term
           /\ Calls(fx') = <<"clear_finished_command">>]_vars

\* C4 witness: an unbound key was pressed on a screen showing a finished
\* command, and the command is gone
C4_Witness ==
    /\ ev = Key(UnboundKey, "none")
    /\ pc = "clamp"
    /\ fx[1].arg = "finished"
    /\ Last(screens).cmd = NoCmd
    /\ Last(screens).n > 0

\* the operation of the handled key press calls issue_command
Issues == Count(fx, "issue_command") > 0

\* the command the active screen held when the key press arrived
HeldBefore == fx[1].arg

\* C5: issue_command is called after the key press has dismissed a finished
\* command, so it spawns only on a screen that was idle or whose finished
\* command the key press has just acknowledged; while the screen's command
\* is pending (child running, or exited and not yet observed by the poll)
\* the issuance is rejected and the command stays.
C5_IssueNeverReplacesPending ==
    (ev.type = "key" /\ ev.kind = "Press" /\ pc # "events" /\ Issues) =>
        /\ fx[1].call = "clear_finished_command" /\ fx[2].call = "issue_command"
        /\ Count(fx, "issue_command") = 1
        /\ Count(fx, "spawn_bg") > 0 =>
             /\ HeldBefore \in {NoCmd, "finished"}
             /\ Last(screens).cmd = "running"
        /\ HeldBefore \in {"running", "exited"} =>
             /\ Count(fx, "spawn_bg") = 0
             /\ Last(screens).cmd = HeldBefore
             /\ pc = "clamp"

\* C5 witness: Fetch was pressed while the child of an earlier command had
\* exited unobserved; nothing was spawned
C5_Witness ==
    /\ Handled("Fetch")
    /\ pc = "clamp"
    /\ HeldBefore = "exited"
    /\ Last(screens).cmd = "exited"
    /\ Count(fx, "spawn_bg") = 0

\* the cursor of s is in [0, N-1] for N visible items, 0 when N = 0
InRange(s) == IF s.n = 0 THEN s.cursor = 0 ELSE s.cursor < s.n

\* C6: when the cursor of the active screen is read, by the draw of run_app
\* or by get_selected_item of a target operation, it is in range.
C6_CursorInRangeWhenRead ==
    [][/\ (pc = "loop" /\ pc' \in {"events", "error"}) => InRange(Last(screens))
       /\ (pc = "events" /\ pc' # "events" /\ OpOf(ev') \in TargetOp)
            => InRange(Last(screens))]_vars

\* the calls of a foreground hand-off up to the wait for the child, and
\* from the child's exit on when none of them fails
BeforeWait == <<"spawn", "write_stdin", "close_stdin">>

AfterWait == <<"wait", "hide_cursor", "clear">>

\* C7: Commit spawns commit_cmd with empty input, writes and closes its
\* stdin and blocks until the child exits; while it is blocked nothing is
\* drawn, polled or read (only children of background commands may exit).
\* When the child has exited, whatever its status and no call failing, the
\* wait returns, the cursor is hidden, the terminal cleared and the active
\* screen refreshed, in this order and with no other call between; the loop
\* goes on with the stack and quit as the operation found them.
C7_CommitHandOff ==
    [][/\ (pc = "events" /\ pc' # "events" /\ OpOf(ev') = "Commit" /\ ev'.fail = "none")
            => /\ pc' = "wait"
               /\ Calls(fx') = <<"clear_finished_command">> \o BeforeWait
               /\ fx'[2].cmd = commit_cmd /\ fx'[2].input = NoInput
               /\ screens' = Found
               /\ quit' = quit
       /\ (pc = "wait" /\ pc' = "wait")
            => /\ fx' = fx /\ ev' = ev /\ term' = term /\ quit' = quit
               /\ HeldAll(screens') = HeldAll(screens)
       /\ (pc = "wait" /\ pc' # "wait" /\ OpOf(ev') = "Commit" /\ ev'.fail = "none")
            => /\ pc' = "clamp"
               /\ Calls(fx) = <<"clear_finished_command">> \o BeforeWait
               /\ Calls(fx') = Calls(fx) \o AfterWait \o <<"refresh_items">>
               /\ term' = [hidden |-> TRUE, clean |-> TRUE]
               /\ screens' = SetTop(screens, refresh_items(Last(screens), ev'.n))
               /\ quit' = quit]_vars

\* C7 witness: the child of Commit exited with a nonzero status and the
\* screen was refreshed
C7_Witness ==
    /\ Handled("Commit")
    /\ ev.status # 0
    /\ pc = "clamp"
    /\ Count(fx, "wait") = 1
    /\ fx[Len(fx)].call = "refresh_items"

\* C8: once open_subscreen has been entered (its spawn was called), the
\* cursor has been hidden and the terminal cleared when control has left it,
\* on every path.
C8_RestoredOnEveryExit ==
    (pc \notin {"events", "wait"} /\ Count(fx, "spawn") > 0) =>
        /\ Count(fx, "hide_cursor") = 1
        /\ Count(fx, "clear") = 1
        /\ term = [hidden |-> TRUE, clean |-> TRUE]

\* C9: Log leaves exactly two screens: the root as the operation found it,
\* not refreshed, and above it a newly created log screen.
C9_LogLeavesRootAndLog ==
    [][(pc = "events" /\ pc' = "clamp" /\ OpOf(ev') = "Log")
        => /\ Len(screens') = 2
           /\ screens'[1] = Found[1]
           /\ screens'[2] = create("log", ev'.tsize, ev'.n)
           /\ Calls(fx') = <<"clear_finished_command", "push">>
           /\ quit' = quit]_vars

\* C9 witness: Log was pressed on a show screen two above the root (two
\* ShowOrEdit on a Ref came before); two screens are left
C9_Witness ==
    /\ Handled("Log")
    /\ pc = "clamp"
    /\ Len(pushedOnto) = 2
    /\ ops = 3
    /\ Len(screens) = 2
    /\ screens[2].kind = "log"

\* ShowOrEdit was handled with the item of Actionable act selected
ShowOrEditOn(acts) ==
    Handled("ShowOrEdit") /\ pc # "events" /\ ev.act \in acts /\ panic # PanicIndex

\* C10: ShowOrEdit on an Untracked, Delta or Hunk item with EDITOR unset
\* aborts with "EDITOR not set" before any process is spawned and with the
\* terminal untouched; on a Ref item it pushes a show screen whatever EDITOR
\* is.
C10_EditorUnset ==
    /\ (ShowOrEditOn({"Untracked", "Delta", "Hunk"}) /\ ev.editor = NoEditor) =>
         /\ pc = "panic" /\ panic = PanicEditor
         /\ Calls(fx) = <<"clear_finished_command">>
         /\ term = [hidden |-> TRUE, clean |-> TRUE]
    /\ (ShowOrEditOn({"Ref"}) /\ ev.fail = "none") =>
         /\ pc = "clamp"
         /\ screens = Append(pushedOnto, create("show", ev.tsize, ev.n))
         /\ Calls(fx) = <<"clear_finished_command", "push">>

\* C10 witness: ShowOrEdit on a hunk of a pushed screen with EDITOR unset
C10_Witness ==
    /\ Handled("ShowOrEdit")
    /\ ev.act = "Hunk"
    /\ ev.editor = NoEditor
    /\ panic = PanicEditor
    /\ Len(screens) = 2

\* C10 witness of its second half: a Ref shown with EDITOR unset
C10_RefWitness ==
    /\ ShowOrEditOn({"Ref"})
    /\ ev.editor = NoEditor
    /\ pc = "clamp"
    /\ Len(screens) = 2

\* the editors editor_cmd is evaluated for: the four terminal editors and
\* two others, one of them a terminal editor named by its path
KnownEditors == TerminalEditors \cup {"code", "/usr/bin/vim"}

\* the arguments the editor is to receive for path P and, with a hunk, line L
PlusLine(P, L) == << <<"+", Dec(L)>>, <<P>> >>

PathColonLine(P, L) == << <<P, ":", Dec(L)>> >>

PathOnly(P) == << <<P>> >>

\* editor_cmd on the known editors, and the digits of the line numbers
EditorCmdOfKnownEditors ==
    /\ Dec(0) = "0" /\ Dec(7) = "7" /\ Dec(10) = "10" /\ Dec(123) = "123"
    /\ \A ed \in KnownEditors, P \in Paths, L \in NewStarts \cup {0, 1, 123} :
         /\ editor_cmd(ed, P, SomeHunk(P, L)) =
              [prog |-> ed,
               args |-> IF ed \in {"vi", "vim", "nvim", "nano"}
                        THEN PlusLine(P, L) ELSE PathColonLine(P, L)]
         /\ editor_cmd(ed, P, NoHunk) = [prog |-> ed, args |-> PathOnly(P)]

\* C11: editor_cmd invokes the value of EDITOR; with a hunk of new_start L
\* and path P a terminal editor (vi, vim, nvim, nano) gets "+L" then P, any
\* other editor gets "P:L", and without a hunk every editor gets P alone.
\* The command ShowOrEdit spawns is the one editor_cmd builds.
C11_EditorArgs ==
    /\ EditorCmdOfKnownEditors
    /\ (ShowOrEditOn({"Untracked", "Delta", "Hunk"}) /\ ev.editor # NoEditor) =>
         /\ fx[2].call = "spawn"
         /\ fx[2].input = NoInput
         /\ fx[2].cmd.prog = ev.editor
         /\ fx[2].cmd.args =
              IF ev.act # "Hunk" THEN PathOnly(ev.path)
              ELSE IF ev.editor = "vim" THEN PlusLine(ev.path, ev.new_start)
              ELSE PathColonLine(ev.path, ev.new_start)

\* C11 witness: a hunk of a.txt at line 10 was opened with EDITOR=code
C11_Witness ==
    /\ ShowOrEditOn({"Hunk"})
    /\ ev.editor = "code"
    /\ pc = "clamp"
    /\ fx[2].cmd = [prog |-> "code", args |-> << <<"a.txt", ":", "10">> >>]

\* Stage or Unstage was handled on a selected hunk, issue_command not failing
OnHunk(op) ==
    Handled(op) /\ pc # "events" /\ ev.act = "Hunk" /\ panic # PanicIndex
        /\ ev.fail = "none"

\* the patch of the hunk the event selects
PatchOf(e) == format_patch([new_file |-> e.path, new_start |-> e.new_start])

\* C12: Stage and Unstage on a hunk h pass the same bytes, h.format_patch(),
\* as the input of the command they issue; Stage issues stage_patch_cmd and
\* Unstage unstage_patch_cmd; refresh_items follows in both.
C12_SamePatchBytes ==
    \A op \in {"Stage", "Unstage"} :
        OnHunk(op) =>
            /\ pc = "clamp"
            /\ fx[2].call = "issue_command"
            /\ fx[2].input = PatchOf(ev) /\ fx[2].input # NoInput
            /\ fx[2].cmd = IF op = "Stage" THEN stage_patch_cmd ELSE unstage_patch_cmd
            /\ stage_patch_cmd # unstage_patch_cmd
            /\ fx[Len(fx)].call = "refresh_items"
            /\ Count(fx, "refresh_items") = 1
            /\ \A i \in 1..Len(fx) :
                 fx[i].call = "spawn_bg" =>
                     fx[i].input = PatchOf(ev) /\ fx[i].cmd = fx[2].cmd

\* C12 witness: Unstage on a hunk spawned its command with the patch as input
C12_Witness ==
    /\ OnHunk("Unstage")
    /\ pc = "clamp"
    /\ Count(fx, "spawn_bg") = 1
    /\ fx[3].input = PatchOf(ev)
    /\ Last(screens).cmd = "running"

\* e is a key event of kind Press
Press(e) == e.type = "key" /\ e.kind = "Press"

\* the step is a call of handle_events that read an event
EventStep == pc = "events" /\ pc' # "events"

\* the active screen is still on the stack, at its place, after the step
TopStays ==
    /\ screens # <<>>
    /\ Len(screens') >= Len(screens)
    /\ ~(OpOf(ev') = "Log" /\ Len(screens) >= 2)

\* the commands of the screens, bottom to top
Cmds(ss) == [i \in 1..Len(ss) |-> ss[i].cmd]

\* C13: a screen's command goes none -> running -> (exit observed by the
\* poll) finished -> none.  A key press dismisses a finished command as its
\* first call, before its operation is dispatched, so the operation finds
\* the screen idle; a key press leaves a pending command in place; events
\* other than key presses and the clamp change no command; the poll marks a
\* command finished only when its child has exited unobserved, and a command
\* already finished is not observed again (no second refresh).
C13_CommandLifecycle ==
    [][/\ (EventStep /\ Press(ev')) => fx'[1].call = "clear_finished_command"
       /\ (EventStep /\ Press(ev') /\ TopStays) =>
            LET a == Last(screens).cmd
                b == screens'[Len(screens)].cmd
            IN  /\ a = "finished" =>
                     /\ fx'[1].arg = "finished"
                     /\ b \in {NoCmd, "running"}
                     /\ b = "running" <=> Count(fx', "spawn_bg") = 1
                /\ a \in {"running", "exited"} => b = a
                /\ a = NoCmd => b \in {NoCmd, "running"}
       /\ (EventStep /\ ~Press(ev')) => Cmds(screens') = Cmds(screens)
       /\ (pc = "clamp") => Cmds(screens') = Cmds(screens)
       /\ (pc = "wait" /\ pc' # "wait") => Cmds(screens') = Cmds(screens)
       /\ (pc = "loop" /\ pc' = "events") =>
            IF Last(screens).cmd = "exited"
            THEN Cmds(screens') = [Cmds(screens) EXCEPT ![Len(screens)] = "finished"]
            ELSE screens' = screens
       /\ (pc' = pc /\ screens' # screens) =>
            \E i \in 1..Len(screens) :
                /\ screens[i].cmd = "running"
                /\ screens' = [screens EXCEPT ![i].cmd = "exited"]]_vars

\* C13 witness: a command was issued, its exit observed, and the next key
\* press (SelectNext) found it finished and dismissed it before moving the
\* cursor
C13_Witness ==
    /\ Handled("SelectNext")
    /\ pc = "clamp"
    /\ fx[1].arg = "finished"
    /\ Last(screens).cmd = NoCmd
    /\ Last(screens).cursor = 1

\* C14: when the selected item carries no Actionable, ShowOrEdit, Stage and
\* Unstage do nothing: no process is spawned, no background command issued,
\* refresh_items is not called, and the stack, the quit flag and the
\* terminal are as the operation found them.
C14_NoActionableIsNoOp ==
    [][(EventStep /\ OpOf(ev') \in TargetOp /\ ev'.act = "none"
            /\ selected_in_range(Last(screens)))
        => /\ pc' = "clamp"
           /\ Calls(fx') = <<"clear_finished_command">>
           /\ screens' = Found
           /\ quit' = quit
           /\ term' = term]_vars

\* C14 witness: Stage was pressed on an item without an Actionable, on a
\* screen pushed above the root
C14_Witness ==
    /\ Handled("Stage")
    /\ ev.act = "none"
    /\ pc = "clamp"
    /\ Len(screens) = 2
    /\ Last(screens).n > 0
    /\ Calls(fx) = <<"clear_finished_command">>

\* run_app's loop is running, and not blocked by a foreground child
InLoop == pc \in {"loop", "events", "clamp"}

\* the child of the active screen's command has exited, unobserved
ExitedUnobserved == InLoop /\ screens # <<>> /\ Last(screens).cmd = "exited"

\* the exit has been observed, or the screen is no longer the active one,
\* or the application has ended
ObservedOrGone == ~InLoop \/ screens = <<>> \/ Last(screens).cmd # "exited"

\* C15: every iteration of run_app polls the active screen's command, with
\* or without a terminal event, so a child of the active screen that has
\* exited is eventually observed as finished (unless the screen is covered
\* or popped first, or the application ends).
C15_ExitEventuallyObserved == ExitedUnobserved ~> ObservedOrGone

\* C15 witness: the exit was observed by the poll of an iteration, no key
\* having been pressed after the one that issued the command
C15_Witness ==
    /\ pc = "events"
    /\ ops = 1
    /\ Last(screens).cmd = "finished"

\* C17: Quit on a stack of one screen pops it, leaves quit set and calls no
\* refresh, and the loop of run_app then ends; Quit on a deeper stack pops
\* one screen, refreshes the one beneath, resets quit, and the loop goes on.
\* Nothing but Quit sets quit, quit is set only with the stack empty, and
\* run_app returns Ok only then.
C17_QuitTerminates ==
    [][/\ (EventStep /\ OpOf(ev') = "Quit" /\ Len(screens) = 1) =>
            /\ screens' = <<>> /\ quit' /\ pc' = "clamp"
            /\ Calls(fx') = <<"clear_finished_command", "pop">>
       /\ (EventStep /\ OpOf(ev') = "Quit" /\ Len(screens) >= 2) =>
            /\ Len(screens') = Len(screens) - 1 /\ ~quit' /\ pc' = "clamp"
            /\ Front(screens') = SubSeq(screens, 1, Len(screens) - 2)
            /\ Calls(fx') = <<"clear_finished_command", "pop", "refresh_items">>
       /\ (EventStep /\ OpOf(ev') # "Quit") => (~quit' /\ Len(screens') >= 1)
       /\ ~EventStep => (quit' = quit /\ Len(screens') = Len(screens))
       /\ quit' <=> screens' = <<>>
       /\ (pc = "loop" /\ quit) => pc' = "exited"
       /\ pc' = "exited" => (quit' /\ screens' = <<>>)]_vars

\* C17 witness: the third key press of a run was Quit on the last screen;
\* the stack is empty, quit is set and nothing was refreshed
C17_Witness ==
    /\ Handled("Quit")
    /\ pc = "clamp"
    /\ ops = 3
    /\ screens = <<>>
    /\ quit
    /\ Calls(fx) = <<"clear_finished_command", "pop">>

\* the calls of a draw whose poll observed the child's exit
PollRefreshed == Calls(fx) = <<"draw", "handle_command_output", "refresh_items">>

\* the poll has just observed the exit and rebuilt the items
RefreshedAfterExit ==
    pc = "events" /\ screens # <<>> /\ Last(screens).cmd = "finished" /\ PollRefreshed

\* the application has ended, or an operation has popped or covered the screen
EndedOrLeft ==
    \/ ~InLoop
    \/ screens = <<>>
    \/ pc = "clamp" /\ OpOf(ev) \in {"Quit", "ShowOrEdit", "Log"}

\* C18: Stage on a hunk spawns its command and refreshes in the same event,
\* the child still running; when the child has exited, the next poll of the
\* active screen marks the command finished and rebuilds the items, so a
\* refresh follows the completion (unless the screen is left or the
\* application ends first).
C18_RefreshAfterCompletion ==
    /\ [][/\ (EventStep /\ OpOf(ev') = "Stage" /\ ev'.act = "Hunk"
                 /\ Count(fx', "spawn_bg") = 1) =>
               /\ Calls(fx') = <<"clear_finished_command", "issue_command",
                                 "spawn_bg", "refresh_items">>
               /\ fx'[3].cmd = stage_patch_cmd
               /\ Last(screens').cmd = "running"
          /\ (pc = "loop" /\ pc' = "events" /\ Last(screens).cmd = "exited") =>
               /\ PollRefreshed'
               /\ Last(screens') = [Last(screens) EXCEPT !.cmd = "finished",
                                                         !.n = Last(screens').n]
          /\ (pc = "loop" /\ pc' = "events" /\ Last(screens).cmd # "exited") =>
               ~PollRefreshed']_vars
    /\ ExitedUnobserved ~> (RefreshedAfterExit \/ EndedOrLeft)

\* C18 witness: the one key press of the run was Stage on a hunk; its child
\* has exited and the poll has rebuilt the items, of which none is left
C18_Witness ==
    /\ RefreshedAfterExit
    /\ ops = 1
    /\ Last(screens).n = 0

\* the step is taken by the program (the exit of a child is not)
ProgramStep == pc' # pc

\* C19: a screen below the top is left as it is by every step of the loop:
\* it is not polled, dismissed, clamped, resized, moved in, refreshed or
\* issued to.  It changes only when Quit makes it the top again, where it is
\* refreshed (and clamped by the clamp that follows), and it leaves the
\* stack only by Log, which keeps the root as it is and discards the rest.  The exit of its command's child is not observed
\* while it is covered.
C19_OnlyTopMutated ==
    [][\A i \in 1..(Len(screens) - 1) :
         IF EventStep /\ OpOf(ev') = "Log"
         THEN i = 1 => screens'[1] = screens[1]
         ELSE /\ i <= Len(screens')
              /\ i < Len(screens') =>
                   IF ProgramStep THEN screens'[i] = screens[i]
                   ELSE Held(screens'[i]) = Held(screens[i])
              /\ i = Len(screens') =>
                   /\ EventStep /\ OpOf(ev') = "Quit"
                   /\ i = Len(screens) - 1
                   /\ screens'[i] = refresh_items(screens[i], ev'.n)
                   /\ fx'[Len(fx')].call = "refresh_items"
                   /\ pc' = "clamp"]_vars

\* C19 witness: the child of a covered screen's command has exited, the
\* draw has polled the screen above, and the covered command is not marked
\* finished
C19_Witness ==
    /\ pc = "events"
    /\ Len(screens) = 2
    /\ screens[1].cmd = "exited"
    /\ Calls(fx) = <<"draw", "handle_command_output">>

\* C20: a Resize sets the size of the active screen and nothing else, the
\* sizes of the screens beneath included; a key event that is not a press,
\* and any other event, changes nothing.  None of them dismisses a finished
\* command, issues a command, refreshes, changes the stack's depth or sets
\* quit: no call is made at all.
C20_NonPressDispatchesNothing ==
    [][(EventStep /\ ev'.type \in {"resize", "key", "other"} /\ ~Press(ev')) =>
          /\ pc' = "clamp"
          /\ fx' = <<>>
          /\ quit' = quit /\ term' = term
          /\ screens' = IF ev'.type = "resize"
                        THEN [screens EXCEPT ![Len(screens)].size = ev'.size]
                        ELSE screens]_vars

\* C20 witness: the terminal was resized while the active screen, above the
\* root, showed a finished command; the command is still there and the root
\* has its old size
C20_Witness ==
    /\ ev.type = "resize"
    /\ pc = "clamp"
    /\ Len(screens) = 2
    /\ screens[2].size = <<40, 12>>
    /\ screens[1].size = InitialSize
    /\ screens[2].cmd = "finished"

============================================================================
